---- MODULE Spec2Model ----
(***************************************************************************)
(* Model of the roster optimizer of fantasy_roster_optimizer.py / app.py:  *)
(* the exact search RosterOptimizer._backtrack_optimize (with its nested   *)
(* function backtrack run on an explicit call stack), the fallback         *)
(* RosterOptimizer._optimized_greedy, and the per-team driver              *)
(* calculate_all_teams with the ranking of print_results.                  *)
(*                                                                         *)
(* Python lists are 0-based, sequences here are 1-based: player_idx = k    *)
(* here is player_idx = k - 1 in the source.  FPts are floats in the       *)
(* source and integers here.                                               *)
(***************************************************************************)
EXTENDS Integers, Sequences, FiniteSets, TLC

\* ------------------------------------------------------------------ bounds
MaxPlayers == 3

MaxValue == 2

MaxCount == 1

\* ------------------------------------------------------- category labels
\* The position labels of the source in the order Python's sorted() puts
\* them (string comparison): '' < 'C' < 'D' < 'G' < 'LW' < 'RW'. The empty
\* label is what a blank Position cell splits into.
SortedLabels == <<"", "C", "D", "G", "LW", "RW">>

\* The labels the positions of the enumerated players are drawn from.
Categories == {"C", "D"}

NoPos == "None"

VARIABLES
    players,            \* _backtrack_optimize's players (a list of Player)
    positions_needed,   \* _backtrack_optimize's positions_needed (a dict)
    stack,              \* the active calls of backtrack, innermost last
    best_solution,      \* nonlocal best_solution
    best_score,         \* nonlocal best_score
    pc,                 \* where the solve is
    selected,           \* _optimized_greedy's selected
    used,               \* _optimized_greedy's used
    remaining,          \* _optimized_greedy's remaining
    gidx,               \* _optimized_greedy's loop index into players
    result,             \* the (assignment, total) the solve returned
    first_result,       \* what an earlier solve of the same input returned
    set_order,          \* the order in which each player's positions set iterates
    teams,              \* RosterOptimizer.teams: status -> list of Player
    team_idx,           \* calculate_all_teams' place in sorted(self.teams.items())
    results,            \* calculate_all_teams' results, in insertion order
    sorted_results,     \* print_results' sorted_results
    requirement,        \* the mapping the caller of the solve wants solved
    csv_data,           \* the rows of the file load_data reads, as text
    reader,             \* what reads them: csv.DictReader or pandas.read_csv
    all_players         \* RosterOptimizer.players

vars == <<players, positions_needed, stack, best_solution, best_score, pc,
          selected, used, remaining, gidx, result, first_result, set_order,
          teams, team_idx, results, sorted_results, requirement, csv_data,
          reader, all_players>>

\* ----------------------------------------------------------------- helpers
Min(a, b) == IF a < b THEN a ELSE b

\* dict.get(pos, 0)
Get(d, pos) == IF pos \in DOMAIN d THEN d[pos] ELSE 0

\* sum(d.values())
RECURSIVE SumValues(_, _)
SumValues(d, keys) ==
    IF keys = {} THEN 0
    ELSE LET k == CHOOSE x \in keys : TRUE
         IN  d[k] + SumValues(d, keys \ {k})

\* total_slots = sum(positions_needed.values())
total_slots(needed) == SumValues(needed, DOMAIN needed)

\* sum(p.fpts for p in ps)
RECURSIVE SumFpts(_)
SumFpts(ps) == IF ps = <<>> THEN 0 ELSE Head(ps).fpts + SumFpts(Tail(ps))

\* sum(p.fpts for p, _ in assignment); an entry is <<index into players, pos>>
RECURSIVE SumAssigned(_, _)
SumAssigned(ps, a) ==
    IF a = <<>> THEN 0 ELSE ps[Head(a)[1]].fpts + SumAssigned(ps, Tail(a))

\* sorted(player.positions): the labels of the set in string order
SortedPositions(positions) == SelectSeq(SortedLabels, LAMBDA c : c \in positions)

\* all(count == 0 for count in remaining.values())
AllFilled(rem) == \A k \in DOMAIN rem : rem[k] = 0

\* the test without its `> 0`: any key of the dict passes
HasSlotAnyKey(rem, pos) == pos \in DOMAIN rem

\* remaining.get(pos, 0) > 0
HasSlot(rem, pos) == Get(rem, pos) > 0

\* the slot is never taken off the count
DecrementNothing(rem, pos) == rem

\* remaining[pos] -= 1
Decrement(rem, pos) == [rem EXCEPT ![pos] = @ - 1]

\* the slice one player short
SliceShort(ps, i, n) == SubSeq(ps, i, Min(i + n - 2, Len(ps)))

\* players[player_idx:player_idx + slots_remaining]
Slice(ps, i, n) == SubSeq(ps, i, Min(i + n - 1, Len(ps)))

\* ------------------------------------------------ _backtrack_optimize

\* best_score = 0.0
InitialBestScoreZero == 1 - 1

\* best_score = -1.0
InitialBestScore == 0 - 1

\* the call backtrack(player_idx, current_assignment, remaining, current_score)
\* step = 0: at its first line; 1..n: at iteration step of the loop over
\* sorted(player.positions); n+1: at the skip call; n+2: the skip call returned
Call(i, a, rem, score) ==
    [player_idx |-> i, current_assignment |-> a, remaining |-> rem,
     current_score |-> score, step |-> 0]

Top == stack[Len(stack)]

Pop == SubSeq(stack, 1, Len(stack) - 1)

\* slots_remaining = total_slots - len(current_assignment)
slots_remaining(f) == total_slots(positions_needed) - Len(f.current_assignment)

\* the bound without current_score
UpperBoundNoCurrent(f) ==
    SumFpts(Slice(players, f.player_idx, slots_remaining(f)))

\* current_score + max_remaining_score
UpperBound(f) ==
    f.current_score + SumFpts(Slice(players, f.player_idx, slots_remaining(f)))

\* lines 88-95: the pruning test
ShouldPrune(f) ==
    /\ slots_remaining(f) > 0
    /\ f.player_idx <= Len(players)
    /\ UpperBound(f) <= best_score

\* line 99: current_score > best_score
Improves(score) == score > best_score

\* the recursive calls pass player_idx on as it is
NextIdxSame(i) == i

\* player_idx + 1 of the two recursive calls
NextIdx(i) == i + 1

\* the loop over every position of the requirement
LoopPositionsAllKeys(f) == SortedPositions(DOMAIN positions_needed)

\* the loop leaving after its first position
LoopPositionsFirstOnly(f) ==
    SubSeq(SortedPositions(players[f.player_idx].positions), 1, 1)

\* the loop's list, sorted(player.positions), of the innermost call
LoopPositions(f) == SortedPositions(players[f.player_idx].positions)

\* the caller's frame moved to its next step, with the callee's frames on top
Step(callees) ==
    [k \in 1..(Len(stack) - 1) |-> stack[k]]
        \o <<[Top EXCEPT !.step = @ + 1]>> \o callees

greedyVars == <<selected, used, remaining, gidx>>

loadVars == <<csv_data, reader, all_players>>

teamVars == <<teams, team_idx, results, sorted_results, requirement, loadVars>>

inputVars == <<players, positions_needed, first_result, set_order, teamVars>>

\* lines 74-76 and 126: the locals, and the call backtrack(0, [], ..., 0.0)
BacktrackStart ==
    /\ pc = "call"
    /\ best_solution' = <<>>
    /\ best_score' = InitialBestScore
    /\ stack' = <<Call(1, <<>>, positions_needed, 0)>>
    /\ pc' = "backtrack"
    /\ UNCHANGED <<result, greedyVars, inputVars>>

\* lines 94-95: return, the bound does not beat the best so far
BacktrackPrune ==
    /\ pc = "backtrack" /\ stack # <<>> /\ Top.step = 0
    /\ ShouldPrune(Top)
    /\ stack' = Pop
    /\ UNCHANGED <<best_solution, best_score, pc, result, greedyVars, inputVars>>

\* lines 98-102: all positions are filled
BacktrackComplete ==
    /\ pc = "backtrack" /\ stack # <<>> /\ Top.step = 0
    /\ ~ShouldPrune(Top)
    /\ AllFilled(Top.remaining)
    /\ IF Improves(Top.current_score)
       THEN /\ best_score' = Top.current_score
            /\ best_solution' = Top.current_assignment
       ELSE UNCHANGED <<best_solution, best_score>>
    /\ stack' = Pop
    /\ UNCHANGED <<pc, result, greedyVars, inputVars>>

\* lines 105-106: all players processed, positions not filled
BacktrackExhausted ==
    /\ pc = "backtrack" /\ stack # <<>> /\ Top.step = 0
    /\ ~ShouldPrune(Top)
    /\ ~AllFilled(Top.remaining)
    /\ Top.player_idx > Len(players)
    /\ stack' = Pop
    /\ UNCHANGED <<best_solution, best_score, pc, result, greedyVars, inputVars>>

\* line 108: player = players[player_idx], the loop starts
BacktrackExpand ==
    /\ pc = "backtrack" /\ stack # <<>> /\ Top.step = 0
    /\ ~ShouldPrune(Top)
    /\ ~AllFilled(Top.remaining)
    /\ Top.player_idx <= Len(players)
    /\ stack' = Step(<<>>)
    /\ UNCHANGED <<best_solution, best_score, pc, result, greedyVars, inputVars>>

\* lines 111-120: an iteration of the loop whose position has a free slot
BacktrackAssign ==
    /\ pc = "backtrack" /\ stack # <<>>
    /\ Top.step >= 1 /\ Top.step <= Len(LoopPositions(Top))
    /\ LET pos == LoopPositions(Top)[Top.step]
       IN  /\ HasSlot(Top.remaining, pos)
           /\ stack' = Step(<<Call(
                  NextIdx(Top.player_idx),
                  Append(Top.current_assignment, <<Top.player_idx, pos>>),
                  Decrement(Top.remaining, pos),
                  Top.current_score + players[Top.player_idx].fpts)>>)
    /\ UNCHANGED <<best_solution, best_score, pc, result, greedyVars, inputVars>>

\* lines 111-112: an iteration of the loop whose position has no free slot
BacktrackPositionFull ==
    /\ pc = "backtrack" /\ stack # <<>>
    /\ Top.step >= 1 /\ Top.step <= Len(LoopPositions(Top))
    /\ ~HasSlot(Top.remaining, LoopPositions(Top)[Top.step])
    /\ stack' = Step(<<>>)
    /\ UNCHANGED <<best_solution, best_score, pc, result, greedyVars, inputVars>>

\* line 123: the call that skips this player
BacktrackSkip ==
    /\ pc = "backtrack" /\ stack # <<>>
    /\ Top.step >= 1
    /\ Top.step = Len(LoopPositions(Top)) + 1
    /\ stack' = Step(<<Call(NextIdx(Top.player_idx), Top.current_assignment,
                            Top.remaining, Top.current_score)>>)
    /\ UNCHANGED <<best_solution, best_score, pc, result, greedyVars, inputVars>>

\* the end of backtrack's body, after the skip call returned
BacktrackReturn ==
    /\ pc = "backtrack" /\ stack # <<>>
    /\ Top.step >= 1
    /\ Top.step = Len(LoopPositions(Top)) + 2
    /\ stack' = Pop
    /\ UNCHANGED <<best_solution, best_score, pc, result, greedyVars, inputVars>>

\* ------------------------------------------------------ _optimized_greedy

\* The orders in which `for pos in player.positions` can visit a set: the
\* iteration order of a Python set of strings follows the strings' hashes,
\* which are salted per process.
IterationOrders(positions) ==
    {o \in [1..Cardinality(positions) -> positions] :
        \A a, b \in DOMAIN o : a # b => o[a] # o[b]}

\* A set iterates the same way every time within a process: the order taken
\* the first time players[k].positions is iterated is the order of every
\* later iteration (set_order[k] = <<>> before the first one).
OrdersOf(k) ==
    IF set_order[k] = <<>> THEN IterationOrders(players[k].positions)
    ELSE {set_order[k]}

\* best_priority = float('inf') is <<>>, a number n is <<n>>
Infinity == <<>>

\* line 157: priority < best_priority
\* best_priority starts at 0, not at float('inf')
PriorityLessFromZero(priority, best_priority) ==
    priority < (IF best_priority = Infinity THEN 0 ELSE best_priority[1])

PriorityLess(priority, best_priority) ==
    best_priority = Infinity \/ priority < best_priority[1]

\* lines 151-159: the loop that finds best_pos, visiting the set as `order`
RECURSIVE FindBestPos(_, _, _, _)
FindBestPos(order, rem, best_pos, best_priority) ==
    IF order = <<>> THEN best_pos
    ELSE LET pos == Head(order)
         IN  IF HasSlot(rem, pos) /\ PriorityLess(rem[pos], best_priority)
             THEN FindBestPos(Tail(order), rem, pos, <<rem[pos]>>)
             ELSE FindBestPos(Tail(order), rem, best_pos, best_priority)

\* line 161: `if best_pos:` lets a label through that is neither None nor ''
IfBestPos(best_pos) == IF best_pos = "" THEN NoPos ELSE best_pos

\* lines 172-177: the first position, in visiting order, with a free slot
RECURSIVE FirstFit(_, _)
FirstFit(order, rem) ==
    IF order = <<>> THEN NoPos
    ELSE IF HasSlot(rem, Head(order)) THEN Head(order)
    ELSE FirstFit(Tail(order), rem)

\* the loops without their `if player.id in used: continue`
AlreadyUsedNever(p) == FALSE

\* lines 147 and 169: player.id in used
AlreadyUsed(p) == p.id \in used

\* selected.append((player, pos)); used.add(player.id); remaining[pos] -= 1
GreedyTake(pos) ==
    IF pos # NoPos
    THEN /\ selected' = Append(selected, <<gidx, pos>>)
         /\ used' = used \cup {players[gidx].id}
         /\ remaining' = Decrement(remaining, pos)
    ELSE UNCHANGED <<selected, used, remaining>>

\* used outlives the call: the ids of an earlier solve are still in it
GreedyStartStaleUsed ==
    /\ selected' = <<>>
    /\ used' = used
    /\ remaining' = positions_needed
    /\ gidx' = 1
    /\ pc' = "greedy_first"

\* lines 142-144: the locals of _optimized_greedy(players, positions_needed)
GreedyStart ==
    /\ selected' = <<>>
    /\ used' = {}
    /\ remaining' = positions_needed
    /\ gidx' = 1
    /\ pc' = "greedy_first"

\* the fallback is never taken: what the search recorded is returned
NoSolutionNever(solution) == FALSE

\* line 129: not best_solution
NoSolution(solution) == solution = <<>>

\* lines 129-132: backtrack(0, ...) returned
BacktrackFinish ==
    /\ pc = "backtrack" /\ stack = <<>>
    /\ IF NoSolution(best_solution)
       THEN \* return self._optimized_greedy(players, positions_needed)
            /\ GreedyStart
            /\ UNCHANGED result
       ELSE /\ pc' = "done"
            /\ result' = <<best_solution, best_score>>
            /\ UNCHANGED greedyVars
    /\ UNCHANGED <<stack, best_solution, best_score, inputVars>>

\* lines 146-164: one iteration of the first loop
GreedyFirstPass ==
    /\ pc = "greedy_first" /\ gidx <= Len(players)
    /\ IF AlreadyUsed(players[gidx])
       THEN UNCHANGED <<selected, used, remaining, set_order>>
       ELSE \E order \in OrdersOf(gidx) :
                /\ GreedyTake(IfBestPos(
                       FindBestPos(order, remaining, NoPos, Infinity)))
                /\ set_order' = [set_order EXCEPT ![gidx] = order]
    /\ gidx' = gidx + 1
    /\ UNCHANGED <<stack, best_solution, best_score, pc, result, players,
                   positions_needed, first_result, teamVars>>

\* line 167: the first loop is over and sum(remaining.values()) > 0
GreedyStartFill ==
    /\ pc = "greedy_first" /\ gidx > Len(players)
    /\ SumValues(remaining, DOMAIN remaining) > 0
    /\ pc' = "greedy_fill"
    /\ gidx' = 1
    /\ UNCHANGED <<stack, best_solution, best_score, result, selected, used,
                   remaining, inputVars>>

\* lines 168-177: one iteration of the second loop
GreedyFill ==
    /\ pc = "greedy_fill" /\ gidx <= Len(players)
    /\ IF AlreadyUsed(players[gidx])
       THEN UNCHANGED <<selected, used, remaining, set_order>>
       ELSE \E order \in OrdersOf(gidx) :
                /\ GreedyTake(FirstFit(order, remaining))
                /\ set_order' = [set_order EXCEPT ![gidx] = order]
    /\ gidx' = gidx + 1
    /\ UNCHANGED <<stack, best_solution, best_score, pc, result, players,
                   positions_needed, first_result, teamVars>>

\* lines 179-180: total = sum(...); return selected, total
GreedyReturn ==
    /\ \/ pc = "greedy_fill" /\ gidx > Len(players)
       \/ /\ pc = "greedy_first" /\ gidx > Len(players)
          /\ SumValues(remaining, DOMAIN remaining) <= 0
    /\ pc' = "done"
    /\ result' = <<selected, SumAssigned(players, selected)>>
    /\ UNCHANGED <<stack, best_solution, best_score, greedyVars, inputVars>>

\* ---------------------------------------------------------- the drivers

\* the order sorted(xs, key=..., reverse=True) gives the indices of its
\* input, keys[k] being the key of xs[k]: descending, and stable, so equal
\* keys stay in input order.  Index i goes behind every index placed so far
\* whose key is >= its own.
\* a sort that is not stable: index i goes before the equal keys placed so
\* far, as sorted(xs, key=...)[::-1] puts it
InsertReverseBeforeEqual(order, keys, i) ==
    LET before == Cardinality({k \in 1..Len(order) : keys[order[k]] > keys[i]})
    IN  SubSeq(order, 1, before) \o <<i>> \o SubSeq(order, before + 1, Len(order))

\* sorted(xs, key=..., reverse=True), one insertion
InsertReverse(order, keys, i) ==
    LET before == Cardinality({k \in 1..Len(order) : keys[order[k]] >= keys[i]})
    IN  SubSeq(order, 1, before) \o <<i>> \o SubSeq(order, before + 1, Len(order))

RECURSIVE ReverseOrder(_, _)
ReverseOrder(keys, n) ==
    IF n = 0 THEN <<>> ELSE InsertReverse(ReverseOrder(keys, n - 1), keys, n)

\* line 55: sorted(team_players, key=lambda p: p.fpts, reverse=True)
SortedByFpts(ps) ==
    LET order == ReverseOrder([k \in 1..Len(ps) |-> ps[k].fpts], Len(ps))
    IN  [k \in 1..Len(ps) |-> ps[order[k]]]

\* line 223: sorted(results.items(), key=lambda x: x[1][1], reverse=True)
SortedByTotal(rs) ==
    LET order == ReverseOrder([k \in 1..Len(rs) |-> rs[k].total], Len(rs))
    IN  [k \in 1..Len(rs) |-> rs[order[k]]]

\* lines 58-60: the requirement optimize_roster passes
\* optimize_roster passes on the mapping its caller wants solved
CallerRequirement == requirement

DefaultRequirement == [C |-> 3, RW |-> 3, LW |-> 3, D |-> 4, G |-> 3]

\* the Status values of the file's rows in the order sorted() puts them
SortedStatuses == <<"AA", "BB", "CC">>

\* the team names in the order of sorted(self.teams.items())
SortedTeamNames == SelectSeq(SortedStatuses, LAMBDA t : t \in DOMAIN teams)

\* lines 41-45: the rows with a Status, grouped by it in file order
LoadData(rows) ==
    [t \in {rows[k].status : k \in 1..Len(rows)} \ {""} |->
        SelectSeq(rows, LAMBDA r : r.status = t)]

\* line 210 with lines 55-60: optimize_roster(team_players) is called
OptimizeRoster ==
    /\ pc = "teams" /\ team_idx <= Len(SortedTeamNames)
    /\ players' = SortedByFpts(teams[SortedTeamNames[team_idx]])
    /\ positions_needed' = DefaultRequirement
    /\ set_order' = [k \in 1..Len(players') |-> <<>>]
    /\ pc' = "call"
    /\ UNCHANGED <<stack, best_solution, best_score, result, greedyVars,
                   first_result, teamVars>>

\* line 211: results[team_name] = (roster, total_fpts)
StoreResult ==
    /\ pc = "done" /\ team_idx >= 1 /\ first_result = <<>>
    /\ results' = Append(results,
           [team |-> SortedTeamNames[team_idx],
            roster |-> [k \in 1..Len(result[1]) |->
                           <<players[result[1][k][1]], result[1][k][2]>>],
            total |-> result[2]])
    /\ team_idx' = team_idx + 1
    /\ pc' = "teams"
    /\ UNCHANGED <<players, positions_needed, stack, best_solution, best_score,
                   result, greedyVars, first_result, set_order, teams,
                   sorted_results, requirement, loadVars>>

\* lines 212 and 223: calculate_all_teams returns, print_results ranks
PrintResults ==
    /\ pc = "teams" /\ team_idx > Len(SortedTeamNames)
    /\ sorted_results' = SortedByTotal(results)
    /\ pc' = "ranked"
    /\ UNCHANGED <<players, positions_needed, stack, best_solution, best_score,
                   result, greedyVars, first_result, set_order, teams, team_idx,
                   results, requirement, loadVars>>

\* the same list and requirement are solved once more, by a process of its
\* own: its sets iterate in an order of their own
SolveAgain ==
    /\ pc = "done" /\ team_idx = 0 /\ first_result = <<>>
    /\ first_result' = <<result>>
    /\ set_order' = [k \in 1..Len(players) |-> <<>>]
    /\ pc' = "call"
    /\ UNCHANGED <<players, positions_needed, stack, best_solution, best_score,
                   result, greedyVars, teamVars>>

\* after _backtrack_optimize(players, positions_needed) returned, the same
\* process calls _optimized_greedy(players, positions_needed)
CallGreedy ==
    /\ pc = "done" /\ team_idx = 0 /\ first_result = <<>>
    /\ first_result' = <<result>>
    /\ GreedyStart
    /\ UNCHANGED <<players, positions_needed, stack, best_solution, best_score,
                   result, set_order, teamVars>>

\* ------------------------------------------------------------- the inputs

\* a Player: the fields the solvers and the drivers read
Player(id, status, fpts, positions) ==
    [id |-> id, status |-> status, fpts |-> fpts, positions |-> positions]

PositionSets == (SUBSET Categories) \ {{}}

\* Player ids come from the file's ID column, which nothing makes unique:
\* the ids of a list are distinct, or they are two rows with one ID.
IdChoices(n) ==
    {[k \in 1..n |-> k]} \cup (IF n = 2 THEN {[k \in 1..n |-> 1]} ELSE {})

\* the lists _backtrack_optimize is called with: sorted by FPts descending
PlayerLists ==
    UNION {
        {[k \in 1..n |-> Player(ids[k], "AA", fp[k], el[k])] :
            ids \in IdChoices(n),
            fp \in {v \in [1..n -> 0..MaxValue] :
                       \A k \in 1..(n - 1) : v[k] >= v[k + 1]},
            el \in [1..n -> PositionSets]}
        : n \in 0..MaxPlayers}

\* the requirements tried: every count of C and D, one without a D key, and
\* one with a position no enumerated player has
Requirements ==
    [{"C", "D"} -> 0..MaxCount] \cup
    {[C |-> 1], [C |-> 1, D |-> 1, G |-> 1]}

\* the scenario of the specification's section 8
ScenarioPlayers ==
    <<Player(1, "AA", 10, {"C"}), Player(2, "AA", 8, {"C", "D"}),
      Player(3, "AA", 5, {"D"})>>

ScenarioRequirement == [C |-> 1, D |-> 1]

\* a list with a player whose Position cell is blank, and a requirement
\* that has a slot for the empty label and one that nobody can fill
BlankPositionPlayers ==
    <<Player(1, "AA", 1, {""}), Player(2, "AA", 1, {"C"})>>

BlankPositionRequirement == ("" :> 1) @@ [C |-> 1, G |-> 1]

\* nothing has run: the locals of a solve hold no value yet
Idle ==
    /\ stack = <<>>
    /\ best_solution = <<>>
    /\ best_score = InitialBestScore
    /\ selected = <<>>
    /\ used = {}
    /\ remaining = <<>>
    /\ gidx = 1
    /\ result = <<>>
    /\ first_result = <<>>
    /\ results = <<>>
    /\ sorted_results = <<>>
    /\ csv_data = <<>>
    /\ reader = "csv"
    /\ all_players = <<>>

\* _backtrack_optimize(players, positions_needed) is called
Init ==
    /\ \/ /\ players \in PlayerLists
          /\ positions_needed \in Requirements
       \/ /\ players = ScenarioPlayers
          /\ positions_needed = ScenarioRequirement
       \/ /\ players = BlankPositionPlayers
          /\ positions_needed = BlankPositionRequirement
    /\ set_order = [k \in 1..Len(players) |-> <<>>]
    /\ requirement = positions_needed
    /\ pc = "call"
    /\ teams = <<>>
    /\ team_idx = 0
    /\ Idle

Solve ==
    \/ BacktrackStart
    \/ BacktrackPrune
    \/ BacktrackComplete
    \/ BacktrackExhausted
    \/ BacktrackExpand
    \/ BacktrackAssign
    \/ BacktrackPositionFull
    \/ BacktrackSkip
    \/ BacktrackReturn
    \/ BacktrackFinish
    \/ GreedyFirstPass
    \/ GreedyStartFill
    \/ GreedyFill
    \/ GreedyReturn

Next == Solve

Spec == Init /\ [][Next]_vars

\* a solve followed by a second solve of the same input
\* the solve is one sequential computation: while a statement is left to
\* run, the interpreter runs one
SpecTerminating == Init /\ [][Next]_vars /\ WF_vars(Next)

NextRepeat == Solve \/ SolveAgain

SpecRepeat == Init /\ [][NextRepeat]_vars

\* a solve followed by a call of the greedy solver on the same input
NextCompare == Solve \/ CallGreedy

SpecCompare == Init /\ [][NextCompare]_vars

\* the rows of the file: at most MaxRows of them
MaxRows == 3

RowValues == {0, 1}

RowPositionSets == {{"C"}, {"C", "D"}}

\* load_data was given n rows with these Status, FPts and Position columns
Loaded(n, st, fp, el) ==
    teams = LoadData([k \in 1..n |-> Player(k, st[k], fp[k], el[k])])

\* a file with one team of sixteen players that fill the default requirement,
\* the fourth of them eligible for C and D, and a second team of one player
RosterPositions ==
    <<{"C"}, {"C"}, {"C"}, {"C", "D"}, {"D"}, {"D"}, {"D"}, {"G"}, {"G"}, {"G"},
      {"LW"}, {"LW"}, {"LW"}, {"RW"}, {"RW"}, {"RW"}>>

FullRosterRows ==
    [k \in 1..Len(RosterPositions) |-> Player(k, "AA", 1, RosterPositions[k])]
        \o <<Player(Len(RosterPositions) + 1, "BB", 1, {"G"})>>

\* RosterOptimizer(csv_path) was constructed, calculate_all_teams() is called
InitAll ==
    /\ \/ \E n \in 0..MaxRows :
             \E st \in [1..n -> {""} \cup
                              {SortedStatuses[k] : k \in DOMAIN SortedStatuses}],
                fp \in [1..n -> RowValues],
                el \in [1..n -> RowPositionSets] : Loaded(n, st, fp, el)
       \/ teams = LoadData(FullRosterRows)
    /\ team_idx = 1
    /\ pc = "teams"
    /\ players = <<>>
    /\ positions_needed = DefaultRequirement
    /\ requirement = DefaultRequirement
    /\ set_order = <<>>
    /\ Idle

NextAll == Solve \/ OptimizeRoster \/ StoreResult \/ PrintResults

SpecAll == InitAll /\ [][NextAll]_vars

\* between two iterations of calculate_all_teams' loop, the same process
\* calls optimize_roster(team_players) on the team just solved, by itself:
\* the Player objects are the same, so their sets iterate as before
OptimizeAlone ==
    /\ pc = "teams" /\ team_idx > 1 /\ first_result = <<>>
    /\ first_result' = <<result>>
    /\ players' = SortedByFpts(teams[SortedTeamNames[team_idx - 1]])
    /\ positions_needed' = DefaultRequirement
    /\ pc' = "call"
    /\ UNCHANGED <<stack, best_solution, best_score, result, greedyVars,
                   set_order, teamVars>>

\* that call returned and its result was looked at
AloneReturn ==
    /\ pc = "done" /\ team_idx >= 1 /\ first_result # <<>>
    /\ first_result' = <<>>
    /\ pc' = "teams"
    /\ UNCHANGED <<players, positions_needed, stack, best_solution, best_score,
                   result, greedyVars, set_order, teamVars>>

\* files whose rows are eligible for C, for D or for both
InitAlone ==
    /\ \/ \E n \in 0..MaxRows :
             \E st \in [1..n -> {"", "AA", "BB"}],
                el \in [1..n -> PositionSets] :
                 Loaded(n, st, [k \in 1..n |-> 1], el)
       \/ teams = LoadData(FullRosterRows)
    /\ team_idx = 1
    /\ pc = "teams"
    /\ players = <<>>
    /\ positions_needed = <<>>
    /\ requirement = DefaultRequirement
    /\ set_order = <<>>
    /\ Idle

NextAlone == NextAll \/ OptimizeAlone \/ AloneReturn

SpecAlone == InitAlone /\ [][NextAlone]_vars

\* the mappings a caller of the per-team solve may want solved
CallerRequirements ==
    {[C |-> 3, RW |-> 3, LW |-> 3, D |-> 4, G |-> 3], [C |-> 1, D |-> 1],
     [C |-> 1]}

\* calculate_all_teams() is called by a caller that wants one of these
\* mappings solved: neither it nor optimize_roster(team_players) has a
\* parameter to take the mapping
InitConfigured ==
    /\ \/ \E n \in 0..MaxRows :
             \E st \in [1..n -> {""} \cup
                              {SortedStatuses[k] : k \in DOMAIN SortedStatuses}],
                el \in [1..n -> RowPositionSets] :
                 Loaded(n, st, [k \in 1..n |-> 1], el)
       \/ teams = LoadData(FullRosterRows)
    /\ requirement \in CallerRequirements
    /\ team_idx = 1
    /\ pc = "teams"
    /\ players = <<>>
    /\ positions_needed = <<>>
    /\ set_order = <<>>
    /\ Idle

SpecConfigured == InitConfigured /\ [][NextAll]_vars

\* ------------------------------------------------------------ load_data
\* load_data row by row, with the cells as the reader hands them to
\* Player.__init__: csv.DictReader (fantasy_roster_optimizer.py) hands over
\* the text of every cell, pandas.read_csv with row.to_dict() (app.py) hands
\* over a float for a cell of a numeric column, its missing-value marker NaN
\* (a float) for a blank cell, and the text otherwise.

\* a Python float: a number or NaN
Float(n) == [nan |-> FALSE, num |-> n]

NaN == [nan |-> TRUE, num |-> 0]

\* the texts a cell of the FPts column holds, and the number float() makes
\* of those it parses
FptsTexts == {"", "abc", "0", "1"}

NumberOf == ("0" :> 0) @@ ("1" :> 1)

StatusTexts == {"", "AA"}

StrCell(text) == [type |-> "str", text |-> text, value |-> Float(0)]

FloatCell(value) == [type |-> "float", text |-> "", value |-> value]

\* row[column] under the reader: column is the name of the field, k the row
Cell(column, k) ==
    LET text == csv_data[k][column]
        numeric == \A j \in 1..Len(csv_data) :
                       csv_data[j][column] \in DOMAIN NumberOf \cup {""}
    IN  IF reader = "csv" THEN StrCell(text)
        ELSE IF text = "" THEN FloatCell(NaN)
        ELSE IF numeric THEN FloatCell(Float(NumberOf[text]))
        ELSE StrCell(text)

\* bool(cell): the empty string and 0.0 are false, NaN is true
Truthy(cell) ==
    IF cell.type = "str" THEN cell.text # ""
    ELSE cell.value.nan \/ cell.value.num # 0

\* float(cell) raises ValueError
RaisesValueError(cell) == cell.type = "str" /\ cell.text \notin DOMAIN NumberOf

\* lines 21-24: float(row['FPts']) if row['FPts'] else 0.0, 0.0 on ValueError
Fpts(cell) ==
    IF ~Truthy(cell) THEN Float(0)
    ELSE IF RaisesValueError(cell) THEN Float(0)
    ELSE IF cell.type = "str" THEN Float(NumberOf[cell.text])
    ELSE cell.value

\* line 19: row['Status'], as the text of the key of self.teams it becomes
StatusOf(cell) == IF cell.type = "str" THEN cell.text ELSE "nan"

\* lines 39-45 (app.py lines 40-44): one row is read
LoadRow ==
    /\ pc = "load" /\ Len(all_players) < Len(csv_data)
    /\ LET k == Len(all_players) + 1
           status == Cell("status", k)
           player == Player(k, StatusOf(status), Fpts(Cell("fpts", k)), {"C"})
       IN  /\ all_players' = Append(all_players, player)
           /\ teams' =
                 IF Truthy(status)
                 THEN [t \in DOMAIN teams \cup {player.status} |->
                          IF t # player.status THEN teams[t]
                          ELSE IF t \in DOMAIN teams THEN Append(teams[t], player)
                          ELSE <<player>>]
                 ELSE teams
    /\ UNCHANGED <<players, positions_needed, stack, best_solution, best_score,
                   pc, result, greedyVars, first_result, set_order, team_idx,
                   results, sorted_results, requirement, csv_data, reader>>

\* the file is read to its end: load_data returns
LoadReturn ==
    /\ pc = "load" /\ Len(all_players) = Len(csv_data)
    /\ pc' = "loaded"
    /\ UNCHANGED <<players, positions_needed, stack, best_solution, best_score,
                   result, greedyVars, inputVars>>

\* RosterOptimizer(csv_path) or RosterOptimizer(csv_data) is constructed:
\* __init__ calls load_data on a file of at most MaxRows rows
InitLoad ==
    /\ stack = <<>> /\ best_solution = <<>> /\ best_score = InitialBestScore
    /\ selected = <<>> /\ used = {} /\ remaining = <<>> /\ gidx = 1
    /\ result = <<>> /\ first_result = <<>>
    /\ results = <<>> /\ sorted_results = <<>>
    /\ players = <<>> /\ positions_needed = DefaultRequirement
    /\ requirement = DefaultRequirement
    /\ set_order = <<>>
    /\ teams = <<>> /\ team_idx = 0
    /\ all_players = <<>>
    /\ reader \in {"csv", "pandas"}
    /\ \E n \in 0..MaxRows :
           csv_data \in [1..n -> [status : StatusTexts, fpts : FptsTexts]]
    /\ pc = "load"

NextLoad == LoadRow \/ LoadReturn

SpecLoad == InitLoad /\ [][NextLoad]_vars

\* ------------------------------------------------------------ properties

Range(s) == {s[k] : k \in 1..Len(s)}

\* the number of entries of assignment a with position c
CountIn(a, c) == Cardinality({k \in 1..Len(a) : a[k][2] = c})

\* no position of assignment a holds more players than the requirement
\* gives it; a position that is no key of the requirement is given none
WithinCapacity(a) ==
    \A k \in 1..Len(a) : CountIn(a, a[k][2]) <= Get(positions_needed, a[k][2])

\* every position of the requirement holds exactly its count, no other any
ExactlyFilled(a) ==
    /\ \A c \in DOMAIN positions_needed : CountIn(a, c) = positions_needed[c]
    /\ \A k \in 1..Len(a) : a[k][2] \in DOMAIN positions_needed

\* every entry's position is one of its player's positions
Eligible(a) == \A k \in 1..Len(a) : a[k][2] \in players[a[k][1]].positions

\* no player id twice
UniqueIds(a) ==
    \A j, k \in 1..Len(a) : j # k => players[a[j][1]].id # players[a[k][1]].id

DistinctIds ==
    \A j, k \in 1..Len(players) : j # k => players[j].id # players[k].id

\* the labels the players of the list have
PlayerLabels == UNION {players[k].positions : k \in 1..Len(players)}

\* Exhaustive enumeration: a choice gives every player one of its positions
\* or none.
Choices ==
    {g \in [1..Len(players) -> PlayerLabels \cup {NoPos}] :
        \A k \in 1..Len(players) : g[k] \in players[k].positions \cup {NoPos}}

Chosen(g, c) == Cardinality({k \in DOMAIN g : g[k] = c})

PartialAssignments ==
    {g \in Choices : \A c \in PlayerLabels : Chosen(g, c) <= Get(positions_needed, c)}

CompleteAssignments ==
    {g \in Choices :
        \A c \in PlayerLabels \cup DOMAIN positions_needed :
            Chosen(g, c) = Get(positions_needed, c)}

RECURSIVE ValueUpTo(_, _)
ValueUpTo(g, n) ==
    IF n = 0 THEN 0
    ELSE (IF g[n] # NoPos THEN players[n].fpts ELSE 0) + ValueUpTo(g, n - 1)

ValueOf(g) == ValueUpTo(g, Len(players))

Feasible == CompleteAssignments # {}

\* _backtrack_optimize returned to its caller
Returned == pc = "done" /\ first_result = <<>>

\* C1: when a complete assignment exists, the total _backtrack_optimize
\* returns is at least the total of every complete assignment.
C1_Optimal ==
    (Returned /\ Feasible) =>
        \A g \in CompleteAssignments : result[2] >= ValueOf(g)

\* a full list with several complete assignments of different totals
C1_Witness ==
    /\ Returned /\ Feasible
    /\ Len(players) = MaxPlayers
    /\ \E g \in CompleteAssignments : ValueOf(g) < result[2]
    /\ \E g \in CompleteAssignments : ValueOf(g) = result[2]

\* C2: when a complete assignment exists, the returned assignment fills
\* every position with exactly its required count.
C2_Complete == (Returned /\ Feasible) => ExactlyFilled(result[1])

\* a player worth 0 that is the only one eligible for its position is assigned
C2_Witness ==
    /\ Returned /\ Feasible
    /\ \E k \in 1..Len(result[1]) :
          /\ players[result[1][k][1]].fpts = 0
          /\ \A j \in 1..Len(players) :
                j # result[1][k][1] => result[1][k][2] \notin players[j].positions

\* C3: no assignment the search builds or a solver returns gives a position
\* more players than its required count, or any to a position that the
\* requirement does not have.
C3_Capacity ==
    /\ \A k \in 1..Len(stack) : WithinCapacity(stack[k].current_assignment)
    /\ WithinCapacity(best_solution)
    /\ WithinCapacity(selected)
    /\ result # <<>> => WithinCapacity(result[1])

\* a position is full while another player eligible for it is left out, and a
\* player is eligible for a position the requirement does not have
C3_Witness ==
    /\ Returned
    /\ \E c \in DOMAIN positions_needed :
          /\ positions_needed[c] > 0
          /\ CountIn(result[1], c) = positions_needed[c]
          /\ \E j \in 1..Len(players) :
                /\ c \in players[j].positions
                /\ \A k \in 1..Len(result[1]) : result[1][k][1] # j
    /\ \E j \in 1..Len(players) :
          players[j].positions \ DOMAIN positions_needed # {}

\* C4: with pairwise distinct ids, no id is twice in a returned assignment.
C4_Unique == (Returned /\ DistinctIds) => UniqueIds(result[1])

\* the greedy solver returned two players after its second pass ran
C4_Witness ==
    /\ Returned /\ DistinctIds
    /\ pc = "done" /\ selected # <<>> /\ result[1] = selected
    /\ Len(selected) >= 2
    /\ SumValues(remaining, DOMAIN remaining) > 0

\* C5: every returned entry's position is one its player is eligible for.
C5_Eligible == Returned => Eligible(result[1])

\* a player eligible for two positions is assigned, another with a position
\* of the requirement is left out
C5_Witness ==
    /\ Returned
    /\ \E k \in 1..Len(result[1]) :
          Cardinality(players[result[1][k][1]].positions) >= 2
    /\ \E j \in 1..Len(players) :
          /\ players[j].positions \cap DOMAIN positions_needed # {}
          /\ \A k \in 1..Len(result[1]) : result[1][k][1] # j

\* the process called _backtrack_optimize, then _optimized_greedy
Compared == pc = "done" /\ first_result # <<>>

\* C6: the total of _backtrack_optimize is at least the total of
\* _optimized_greedy on the same list and requirement.
C6_Dominance == Compared => first_result[1][2] >= result[2]

\* the greedy solver returns less, and not a complete assignment, where a
\* complete one exists
C6_Witness ==
    /\ Compared /\ Feasible
    /\ first_result[1][2] > result[2]
    /\ ~ExactlyFilled(result[1])

\* C7: a second solve of the same list (its ids distinct) against the same
\* requirement returns the same assignment and the same total as the first.
C7_Deterministic == (Compared /\ DistinctIds) => result = first_result[1]

\* C8 as claimed: when no complete assignment exists (the ids being
\* distinct), no partial assignment within capacity and eligibility has a
\* larger total than the returned one.
C8_BestPartial ==
    (Returned /\ ~Feasible /\ DistinctIds) =>
        \A g \in PartialAssignments : result[2] >= ValueOf(g)

\* C8 as amended: when no complete assignment exists, the solver returns a
\* partial assignment within capacity and eligibility whose total is the sum
\* of its players' values and which, the ids being distinct, no player left
\* out can be added to: each of that player's positions is full.
C8_Maximal ==
    (Returned /\ ~Feasible) =>
        /\ WithinCapacity(result[1])
        /\ Eligible(result[1])
        /\ ~ExactlyFilled(result[1])
        /\ result[2] = SumAssigned(players, result[1])
        /\ DistinctIds =>
              \A j \in 1..Len(players) :
                  (\A k \in 1..Len(result[1]) : result[1][k][1] # j) =>
                      \A c \in players[j].positions :
                          CountIn(result[1], c) >= Get(positions_needed, c)

\* no complete assignment exists and another partial assignment is worth more
C8_Witness ==
    /\ Returned /\ ~Feasible /\ DistinctIds
    /\ result[1] # <<>>
    /\ \E g \in PartialAssignments : ValueOf(g) > result[2]

Scenario == players = ScenarioPlayers /\ positions_needed = ScenarioRequirement

\* C9 as claimed: the scenario returns A to C and C2 to D, total 15.
C9_Expected ==
    (Returned /\ Scenario) => result = <<<<<<1, "C">>, <<3, "D">>>>, 15>>

\* C9 as amended: the scenario returns A to C and B to D, total 18, and C2 is
\* not assigned.
C9_Scenario ==
    (Returned /\ Scenario) => result = <<<<<<1, "C">>, <<2, "D">>>>, 18>>

C9_Witness == Returned /\ Scenario /\ Len(result[1]) = 2

\* the place of a team name in sorted order
RECURSIVE Place(_, _)
Place(t, k) == IF SortedStatuses[k] = t THEN k ELSE Place(t, k + 1)

\* C10: the ranking lists every team once, by total descending, and teams of
\* equal total by name ascending.
C10_Ranking ==
    pc = "ranked" =>
        /\ Len(sorted_results) = Len(results)
        /\ Range(sorted_results) = Range(results)
        /\ \A j, k \in 1..Len(sorted_results) :
              j < k =>
                  \/ sorted_results[j].total > sorted_results[k].total
                  \/ /\ sorted_results[j].total = sorted_results[k].total
                     /\ Place(sorted_results[j].team, 1)
                            < Place(sorted_results[k].team, 1)

\* three teams, two of equal total, ranked in another order than by name
C10_Witness ==
    /\ pc = "ranked"
    /\ Len(sorted_results) = Len(SortedStatuses)
    /\ \E j, k \in 1..Len(sorted_results) :
          j < k /\ sorted_results[j].total = sorted_results[k].total
    /\ \E j, k \in 1..Len(sorted_results) :
          /\ j < k
          /\ Place(sorted_results[j].team, 1) > Place(sorted_results[k].team, 1)

\* a solve that optimize_roster started is running or has returned
TeamSolve == team_idx >= 1 /\ pc \notin {"teams", "ranked", "load"}

C12_EmptyGroup ==
    (Returned /\ players = <<>> /\ total_slots(positions_needed) > 0) =>
        result = <<<<>>, 0>>

\* the empty list was solved against a requirement that asks for a player
C12_Witness ==
    /\ Returned /\ players = <<>>
    /\ positions_needed = [C |-> 1, D |-> 1]
    /\ best_score = InitialBestScore /\ gidx = 1

\* C13 as the specification states it: under either reader, a row whose
\* FPts cell is blank or does not parse gives a Player whose fpts is 0.
C13_Coerced ==
    \A k \in 1..Len(all_players) :
        csv_data[k].fpts \notin DOMAIN NumberOf => all_players[k].fpts = Float(0)

\* the roster calculate_all_teams stored for its k-th team, as the
\* assignment of indices into the sorted list of that team it was made from
StoredAssignment(k) ==
    [j \in 1..Len(results[k].roster) |->
        <<CHOOSE i \in 1..Len(players) : players[i] = results[k].roster[j][1],
          results[k].roster[j][2]>>]

\* C14: calculate_all_teams stores one result per team, in the order of the
\* team names; every player of a team's roster is one of that team's rows;
\* the lists of self.teams stay in file order; and solving the team just
\* stored by itself, after every solve before it, returns what was stored.
C14_Isolation ==
    /\ Len(results) <= Len(SortedTeamNames)
    /\ pc = "ranked" => Len(results) = Cardinality(DOMAIN teams)
    /\ \A k \in 1..Len(results) :
          /\ results[k].team = SortedTeamNames[k]
          /\ \A j \in 1..Len(results[k].roster) :
                /\ results[k].roster[j][1].status = results[k].team
                /\ results[k].roster[j][1] \in Range(teams[results[k].team])
    /\ \A t \in DOMAIN teams :
          \A j, k \in 1..Len(teams[t]) : j < k => teams[t][j].id < teams[t][k].id
    /\ (pc = "done" /\ team_idx > 1 /\ first_result # <<>>) =>
          /\ result = first_result[1]
          /\ result[1] = StoredAssignment(team_idx - 1)
          /\ result[2] = results[team_idx - 1].total

\* the second of two teams was solved by itself after calculate_all_teams
\* had solved both, and its greedy solve had a tie between C and D to break
C14_Witness ==
    /\ pc = "done" /\ team_idx = 3 /\ first_result # <<>>
    /\ Len(results) = 2
    /\ Len(result[1]) >= 2
    /\ \E k \in 1..Len(players) : set_order[k] = <<"D", "C">>

\* the positions of a set that have a free slot under rem
Open(positions, rem) == {c \in positions : HasSlot(rem, c)}

\* those of them with the smallest count of free slots
Smallest(positions, rem) ==
    {c \in Open(positions, rem) :
        \A d \in Open(positions, rem) : rem[c] <= rem[d]}

\* the first label of a non-empty set in label order
FirstLabel(S) == SelectSeq(SortedLabels, LAMBDA c : c \in S)[1]

\* C15 as the specification states it: the player the first pass has just
\* visited (ids being distinct) was given, of its positions with a free
\* slot, the one with the fewest free slots, the first in label order among
\* several such; it was given none only if none of its positions had a slot.
C15_LabelOrder ==
    (pc = "greedy_first" /\ gidx > 1 /\ DistinctIds) =>
        LET j == gidx - 1
            took == selected # <<>> /\ selected[Len(selected)][1] = j
            pos == selected[Len(selected)][2]
            before == [remaining EXCEPT ![pos] = @ + 1]
        IN  IF took
            THEN pos = FirstLabel(Smallest(players[j].positions, before))
            ELSE Open(players[j].positions, remaining) = {}

\* the complete assignments that extend the partial assignment of call f
\* with players at index f.player_idx or later only
Completions(f) ==
    {g \in CompleteAssignments :
        /\ \A k \in 1..Len(f.current_assignment) :
              g[f.current_assignment[k][1]] = f.current_assignment[k][2]
        /\ \A i \in 1..Len(players) :
              (i < f.player_idx /\ g[i] # NoPos) =>
                  \E k \in 1..Len(f.current_assignment) :
                      f.current_assignment[k][1] = i}

\* C16: when a call of backtrack is entered, its current_score plus the
\* FPts of the next slots_remaining players is at least the total of every
\* complete assignment that extends the call's partial assignment with
\* players from its index on; so a call about to be pruned has no completion
\* better than best_score.
C16_Admissible ==
    (pc = "backtrack" /\ stack # <<>> /\ Top.step = 0) =>
        /\ \A g \in Completions(Top) : UpperBound(Top) >= ValueOf(g)
        /\ ShouldPrune(Top) =>
              \A g \in Completions(Top) : ValueOf(g) <= best_score

\* a call is about to be pruned although its partial assignment, of one
\* player at least, has a completion, whose total is the bound exactly
C16_Witness ==
    /\ pc = "backtrack" /\ stack # <<>>
    /\ Top.step = 0 /\ ShouldPrune(Top)
    /\ Top.current_assignment # <<>>
    /\ \E g \in Completions(Top) : ValueOf(g) = UpperBound(Top)

\* the largest step a call of backtrack reaches: the loop over its player's
\* positions, the skip call, the return
LastStep == Cardinality(Categories) + 2

\* A variant of the search: the calls of the stack, outermost first, read
\* as the digits of a number, a call's digit being the steps it has left.
RECURSIVE Rank(_)
Rank(d) ==
    IF d = 0 THEN 0
    ELSE (LastStep + 1 - stack[d].step) * (LastStep + 2) ^ (Len(players) + 1 - d)
             + Rank(d - 1)

Variant == Rank(Len(stack))

\* the d-th call of the stack has index d, no call is deeper than the list
\* is long plus one, and a call that has made a call had a player and a
\* position left to fill
Nesting ==
    /\ Len(stack) <= Len(players) + 1
    /\ \A d \in 1..Len(stack) :
          /\ stack[d].player_idx = d
          /\ stack[d].step <= LastStep
          /\ d < Len(stack) =>
                /\ stack[d].player_idx <= Len(players)
                /\ ~AllFilled(stack[d].remaining)

\* C17: every step of the search keeps the nesting of the calls within the
\* list's length plus one, whatever the slot counts are, with each call's
\* index one more than its caller's, and lowers the variant; and the solve
\* returns.
C17_Terminates ==
    /\ [][/\ pc' = "backtrack" => Nesting'
          /\ (pc = "backtrack" /\ pc' = "backtrack") =>
                Variant' < Variant]_vars
    /\ <>(pc = "done")

\* the calls are nested as deep as the list of MaxPlayers players allows,
\* for a requirement of one slot
C17_Witness ==
    /\ pc = "backtrack"
    /\ Len(players) = MaxPlayers
    /\ Len(stack) = Len(players) + 1
    /\ total_slots(positions_needed) = 1

\* no player whose id is not in used has a position with a free slot
NothingLeftToTake ==
    \A j \in 1..Len(players) :
        players[j].id \notin used => Open(players[j].positions, remaining) = {}

\* a step of _optimized_greedy: when the second loop starts, no unused
\* player has a position with a free slot; the first loop only lowers the
\* counts of remaining; and no iteration of the second loop changes
\* selected, used or remaining, so that what is returned is what the first
\* loop selected
FillAddsNothing ==
    /\ pc' = "greedy_fill" => NothingLeftToTake'
    /\ (pc = "greedy_first" /\ pc' \in {"greedy_first", "greedy_fill"}) =>
          \A c \in DOMAIN remaining : remaining'[c] <= remaining[c]
    /\ pc = "greedy_fill" =>
          /\ <<selected, used, remaining>>' = <<selected, used, remaining>>
          /\ pc' = "done" => result'[1] = selected

====
